---- MODULE Spec2Model ----
(***************************************************************************)
(* landcarve "realise": a DEM grid is triangulated into a solid mesh       *)
(* (realise, get_neighbour_value), the mesh is simplified by repeated      *)
(* Mesh.simplify passes and written as binary STL by Mesh.save.            *)
(*                                                                         *)
(* Two kinds of run are modelled.  A "realise" run scans a grid cell by    *)
(* cell, as the command does.  An "api" run is a client of the Mesh class  *)
(* that issues add_triangle / add_quad / add_surface / add_edge calls      *)
(* from a script and then simplifies and saves the same way.               *)
(*                                                                         *)
(* Numbers: elevations and coordinates are integers.  A unit normal is     *)
(* represented by the primitive integer vector of its direction (the cross *)
(* product divided by the gcd of its components): two such vectors are     *)
(* equal exactly when the normalised real vectors are equal.               *)
(***************************************************************************)
EXTENDS Integers, Sequences, FiniteSets, TLC

VARIABLES
    arr,            \* realise: the DEM array [shape, data] (raster_to_array)
    calls,          \* api: the Mesh calls the client has still to make
    pos,            \* realise: number of cells numpy.ndenumerate has yielded
    pc,             \* "scan" | "api" | "simplify" | "save" | "done" | "KeyError"
    vertices,       \* Mesh.vertices: OrderedDict as a sequence of <<key, value>>
    faces,          \* Mesh.faces: sequence of <<normal, i1, i2, i3>>
    emitted,        \* history: the add_* calls made so far, with the centre cell
    removed,        \* realise: the last return value of mesh.simplify()
    total_removed,  \* realise: total_removed
    passes,         \* history: number of mesh.simplify() calls made
    out             \* the writes Mesh.save has made to the file

vars == <<arr, calls, pos, pc, vertices, faces, emitted, removed,
          total_removed, passes, out>>

----------------------------------------------------------------------------
(* Bounds of the model *)

\* general grids have at most MaxCells cells (every shape W x H within it)
MaxCells == 6
\* flat grids (every cell valid, one elevation) reach MaxFlat x MaxFlat
MaxFlat == 6
\* an api client draws at most MaxCalls calls from ClientCalls
MaxCalls == 2

(* Program constants *)

\* landcarve.constants.NODATA (imported, realise.py line 8)
NODATA == -9999
\* --minimum, --thickness and --z-scale at their defaults
minimum == 0
thickness == 1
z_scale == 1
\* realise.py line 30
bottom == 0 - (thickness \div z_scale)

\* the elevations a grid cell holds in the model: no-data, a value strictly
\* between the sentinel and the minimum, and a value above the minimum
GridValues == {NODATA, -5, 1}

----------------------------------------------------------------------------
(* Grids *)

CellsOf(w, h) == (0 .. w - 1) \X (0 .. h - 1)

Shapes == {s \in (1 .. MaxCells) \X (1 .. MaxCells) : s[1] * s[2] <= MaxCells}

GeneralGrids ==
    UNION {{[shape |-> s, data |-> d] : d \in [CellsOf(s[1], s[2]) -> GridValues]}
           : s \in Shapes}

FlatGrids ==
    {[shape |-> s, data |-> [c \in CellsOf(s[1], s[2]) |-> 1]]
     : s \in (1 .. MaxFlat) \X (1 .. MaxFlat)}

Grids == GeneralGrids \cup FlatGrids

NoGrid == [shape |-> <<0, 0>>, data |-> <<>>]

NCells(a) == a.shape[1] * a.shape[2]

\* numpy.ndenumerate: row-major, the last index fastest
IndexAt(a, k) == <<k \div a.shape[2], k % a.shape[2]>>

----------------------------------------------------------------------------
(* get_neighbour_value: (x, y, None) or (x, y, value).  The third          *)
(* component being None is the field none; z is then meaningless.          *)

\* a sampler without the bounds test of lines 118-124: the index wraps
get_neighbour_value_wrap(index, a) ==
    LET w == <<index[1] % a.shape[1], index[2] % a.shape[2]>>
        value == a.data[w]
    IN  IF value <= NODATA
        THEN [x |-> index[1], y |-> index[2], z |-> 0, none |-> TRUE]
        ELSE [x |-> index[1], y |-> index[2], z |-> value, none |-> FALSE]

get_neighbour_value(index, a) ==
    IF \/ index[1] < 0
       \/ index[1] >= a.shape[1]
       \/ index[2] < 0
       \/ index[2] >= a.shape[2]
    THEN [x |-> index[1], y |-> index[2], z |-> 0, none |-> TRUE]
    ELSE LET value == a.data[index]
         IN  IF value <= NODATA
             THEN [x |-> index[1], y |-> index[2], z |-> 0, none |-> TRUE]
             ELSE [x |-> index[1], y |-> index[2], z |-> value, none |-> FALSE]

\* realise.py lines 35-36: the centre cell's value, raised to the minimum
CentreValue(value) == IF NODATA < value /\ value < minimum THEN minimum ELSE value

\* realise.py lines 44-51
Neighbours(index, a) ==
    [t  |-> get_neighbour_value(<<index[1], index[2] - 1>>, a),
     tr |-> get_neighbour_value(<<index[1] + 1, index[2] - 1>>, a),
     tl |-> get_neighbour_value(<<index[1] - 1, index[2] - 1>>, a),
     l  |-> get_neighbour_value(<<index[1] - 1, index[2]>>, a),
     r  |-> get_neighbour_value(<<index[1] + 1, index[2]>>, a),
     bl |-> get_neighbour_value(<<index[1] - 1, index[2] + 1>>, a),
     b  |-> get_neighbour_value(<<index[1], index[2] + 1>>, a),
     br |-> get_neighbour_value(<<index[1] + 1, index[2] + 1>>, a)]

----------------------------------------------------------------------------
(* The calls realise makes on the mesh for one centre cell *)

P(s) == <<s.x, s.y, s.z>>

Surface(p1, p2, p3) ==
    [op |-> "add_surface", pts |-> <<P(p1), P(p2), P(p3)>>, bottom |-> bottom]

Edge(p1, p2) ==
    [op |-> "add_edge", pts |-> <<P(p1), P(p2)>>, bottom |-> bottom]

If(cond, s) == IF cond THEN s ELSE <<>>

\* realise.py lines 52-63
CentreRightBottom(c, n) ==
    If(~n.r.none /\ ~n.b.none,
       <<Surface(c, n.r, n.b)>>
       \o If(n.br.none, <<Edge(n.b, n.r)>>)
       \o If(n.t.none /\ n.tr.none, <<Edge(n.r, c)>>)
       \o If(n.l.none /\ n.bl.none, <<Edge(c, n.b)>>))

\* realise.py lines 64-75
TopCentreLeft(c, n) ==
    If(~n.t.none /\ ~n.l.none,
       <<Surface(n.t, c, n.l)>>
       \o If(n.tl.none, <<Edge(n.t, n.l)>>)
       \o If(n.r.none /\ n.tr.none, <<Edge(c, n.t)>>)
       \o If(n.b.none /\ n.bl.none, <<Edge(n.l, c)>>))

\* realise.py lines 76-86
TopRightCentre(c, n) ==
    If(~n.t.none /\ ~n.r.none /\ n.tr.none,
       <<Surface(n.t, n.r, c), Edge(n.r, n.t)>>
       \o If(n.l.none /\ n.tl.none, <<Edge(n.t, c)>>)
       \o If(n.b.none /\ n.br.none, <<Edge(c, n.r)>>))

\* realise.py lines 87-97
LeftCentreBottom(c, n) ==
    If(~n.l.none /\ ~n.b.none /\ n.bl.none,
       <<Surface(n.l, c, n.b), Edge(n.l, n.b)>>
       \o If(n.r.none /\ n.br.none, <<Edge(n.b, c)>>)
       \o If(n.t.none /\ n.tr.none, <<Edge(c, n.l)>>))

\* realise.py lines 35-97: the body of the loop for the cell at index
CellCalls(a, index) ==
    LET value == CentreValue(a.data[index])
        c == [x |-> index[1], y |-> index[2], z |-> value, none |-> FALSE]
        n == Neighbours(index, a)
    IN  IF value > NODATA
        THEN CentreRightBottom(c, n) \o TopCentreLeft(c, n)
             \o TopRightCentre(c, n) \o LeftCentreBottom(c, n)
        ELSE <<>>

----------------------------------------------------------------------------
(* Mesh *)

HasKey(vs, vertex) == \E k \in 1 .. Len(vs) : vs[k][1] = vertex

\* self.vertices[vertex]
Lookup(vs, vertex) == vs[CHOOSE k \in 1 .. Len(vs) : vs[k][1] = vertex][2]

\* a vertex_index without the membership test of line 149
vertex_index_nodedup(vs, vertex) == Append(vs, <<vertex, Len(vs)>>)

\* Mesh.vertex_index: the vertex table after the call; the index returned
\* is Lookup of the vertex in it
vertex_index(vs, vertex) ==
    IF ~HasKey(vs, vertex) THEN Append(vs, <<vertex, Len(vs)>>) ELSE vs

Abs(a) == IF a < 0 THEN -a ELSE a

RECURSIVE Gcd(_, _)
Gcd(a, b) == IF b = 0 THEN a ELSE Gcd(b, a % b)

\* normal / normal_magnitude, as the primitive vector of the direction
Normalise(n) ==
    LET g == Gcd(Gcd(Abs(n[1]), Abs(n[2])), Abs(n[3]))
    IN  <<n[1] \div g, n[2] \div g, n[3] \div g>>

\* Mesh.add_triangle lines 162-176
Normal(point1, point2, point3) ==
    LET u == <<point2[1] - point1[1], point2[2] - point1[2], point2[3] - point1[3]>>
        v == <<point3[1] - point1[1], point3[2] - point1[2], point3[3] - point1[3]>>
    IN  Normalise(<<(u[2] * v[3]) - (u[3] * v[2]),
                    (u[3] * v[1]) - (u[1] * v[3]),
                    (u[1] * v[2]) - (u[2] * v[1])>>)

\* a triangle of area zero has normal_magnitude 0 and its normal is not
\* defined; the calls of the model never pass one
ZeroArea(point1, point2, point3) ==
    LET u == <<point2[1] - point1[1], point2[2] - point1[2], point2[3] - point1[3]>>
        v == <<point3[1] - point1[1], point3[2] - point1[2], point3[3] - point1[3]>>
    IN  /\ (u[2] * v[3]) - (u[3] * v[2]) = 0
        /\ (u[3] * v[1]) - (u[1] * v[3]) = 0
        /\ (u[1] * v[2]) - (u[2] * v[1]) = 0

\* Mesh.add_triangle
add_triangle(m, point1, point2, point3) ==
    LET vs1 == vertex_index(m.vertices, point1)
        i1 == Lookup(vs1, point1)
        vs2 == vertex_index(vs1, point2)
        i2 == Lookup(vs2, point2)
        vs3 == vertex_index(vs2, point3)
        i3 == Lookup(vs3, point3)
    IN  [vertices |-> vs3,
         faces |-> Append(m.faces, <<Normal(point1, point2, point3), i1, i2, i3>>)]

\* Mesh.add_quad
add_quad(m, point1, point2, point3, point4) ==
    add_triangle(add_triangle(m, point1, point2, point4), point2, point3, point4)

\* Mesh.add_surface
add_surface(m, point1, point2, point3, bot) ==
    add_triangle(
        add_triangle(m, <<point1[1], point1[2], point1[3]>>,
                        <<point2[1], point2[2], point2[3]>>,
                        <<point3[1], point3[2], point3[3]>>),
        <<point1[1], point1[2], bot>>,
        <<point3[1], point3[2], bot>>,
        <<point2[1], point2[2], bot>>)

\* Mesh.add_edge
add_edge(m, point1, point2, bot) ==
    add_quad(m, <<point1[1], point1[2], point1[3]>>,
                <<point2[1], point2[2], point2[3]>>,
                <<point2[1], point2[2], bot>>,
                <<point1[1], point1[2], bot>>)

\* one call on the mesh
ApplyCall(m, call) ==
    CASE call.op = "add_triangle" ->
             add_triangle(m, call.pts[1], call.pts[2], call.pts[3])
      [] call.op = "add_quad" ->
             add_quad(m, call.pts[1], call.pts[2], call.pts[3], call.pts[4])
      [] call.op = "add_surface" ->
             add_surface(m, call.pts[1], call.pts[2], call.pts[3], call.bottom)
      [] call.op = "add_edge" ->
             add_edge(m, call.pts[1], call.pts[2], call.bottom)

\* the calls of cs made in order (the test on the number of faces is always
\* true: it makes TLC work out each call's mesh before it goes on to the
\* next call, which keeps its evaluation stack shallow)
RECURSIVE ApplyCalls(_, _)
ApplyCalls(m, cs) ==
    IF cs = <<>> THEN m
    ELSE LET after == ApplyCall(m, Head(cs))
         IN  IF Len(after.faces) > Len(m.faces) THEN ApplyCalls(after, Tail(cs)) ELSE after

----------------------------------------------------------------------------
(* Mesh.simplify *)

Range(s) == {s[k] : k \in 1 .. Len(s)}

\* lines 227-229 for one face: what it appends to vertex_face_normals[v]
FaceNormalsFor(f, v) ==
    If(f[2] = v, <<f[1]>>) \o If(f[3] = v, <<f[1]>>) \o If(f[4] = v, <<f[1]>>)

\* lines 230-232 for one face: what it appends to vertex_neighbours[v]
FaceNeighboursFor(f, v) ==
    If(f[2] = v, <<f[3], f[4]>>) \o If(f[3] = v, <<f[2], f[4]>>)
    \o If(f[4] = v, <<f[2], f[3]>>)

\* the concatenation of what Op(fs[k], v) gives for k = lo .. hi, in order
\* (split in halves: the loop over self.faces, without a deep recursion)
RECURSIVE Collect(_, _, _, _, _)
Collect(Op(_, _), fs, lo, hi, v) ==
    IF lo > hi THEN <<>>
    ELSE IF lo = hi THEN Op(fs[lo], v)
         ELSE LET mid == (lo + hi) \div 2
              IN  Collect(Op, fs, lo, mid, v) \o Collect(Op, fs, mid + 1, hi, v)

NormalsFrom(fs, k, v) == Collect(FaceNormalsFor, fs, k, Len(fs), v)

NeighboursFrom(fs, k, v) == Collect(FaceNeighboursFor, fs, k, Len(fs), v)

\* the keys of both maps: the vertex indices some face holds
FaceVertices(fs) == UNION {{fs[k][2], fs[k][3], fs[k][4]} : k \in 1 .. Len(fs)}

\* lines 224-232
vertex_face_normals(fs) == [v \in FaceVertices(fs) |-> NormalsFrom(fs, 1, v)]

vertex_neighbours(fs) == [v \in FaceVertices(fs) |-> NeighboursFrom(fs, 1, v)]

\* lines 235-238
flat_vertices(vfn) ==
    LET flat == {v \in DOMAIN vfn : \A k \in 1 .. Len(vfn[v]) : vfn[v][k] = vfn[v][1]}
    IN  [v \in flat |-> vfn[v][1]]

Min(S) == CHOOSE a \in S : \A b \in S : a <= b

\* a pass without the taint updates of lines 259-260
Taint_none(tainted, vn, index, neighbour) == tainted

\* lines 259-260
Taint(tainted, vn, index, neighbour) ==
    tainted \cup Range(vn[index]) \cup Range(vn[neighbour])

\* the loop body without the test of lines 250-252
Skips_without_neighbour_test(index, vn, flat, tainted) ==
    \/ index \notin DOMAIN flat
    \/ index \in tainted
    \/ ~(\E k \in 1 .. Len(vn[index]) :
            /\ vn[index][k] \in DOMAIN flat
            /\ flat[vn[index][k]] = flat[index])

\* lines 244-255: the loop body at position index ends in a continue, or
\* finds no neighbour to merge with
Skips(index, vn, flat, tainted) ==
    \/ index \notin DOMAIN flat
    \/ index \in tainted
    \/ ~(\A neighbour \in Range(vn[index]) : neighbour \in DOMAIN flat)
    \/ ~(\E k \in 1 .. Len(vn[index]) :
            /\ vn[index][k] \in DOMAIN flat
            /\ flat[vn[index][k]] = flat[index])

\* lines 254-255: the first neighbour in the list that is flat with the
\* same normal
FirstMatch(index, vn, flat) ==
    vn[index][Min({k \in 1 .. Len(vn[index]) :
                      /\ vn[index][k] \in DOMAIN flat
                      /\ flat[vn[index][k]] = flat[index]})]

\* lines 243-261: the scan of the vertex table from position index on (n
\* is its length); merged_vertices is the sequence of <<index, neighbour>>
\* in insertion order.  Positions the body skips change nothing, so the
\* scan goes straight to the next position that merges.
RECURSIVE SelectMerges(_, _, _, _, _, _)
SelectMerges(index, n, vn, flat, tainted, merged) ==
    LET merging == {i \in index .. n - 1 : ~Skips(i, vn, flat, tainted)}
    IN  IF merging = {} THEN merged
        ELSE LET i == Min(merging)
                 neighbour == FirstMatch(i, vn, flat)
             IN  SelectMerges(i + 1, n, vn, flat,
                              Taint(tainted, vn, i, neighbour),
                              Append(merged, <<i, neighbour>>))

\* lines 224-261: merged_vertices for a mesh
merged_vertices(vs, fs) ==
    LET vfn == vertex_face_normals(fs)
        vn == vertex_neighbours(fs)
    IN  SelectMerges(0, Len(vs), vn, flat_vertices(vfn), {}, <<>>)

Sources(merged) == {merged[k][1] : k \in 1 .. Len(merged)}

Targets(merged) == {merged[k][2] : k \in 1 .. Len(merged)}

\* lines 267-270: the positions that survive, in table order
Unmerged(vs, merged) ==
    SelectSeq([k \in 1 .. Len(vs) |-> k - 1], LAMBDA index : index \notin Sources(merged))

\* lines 263, 267-270: new_vertices
new_vertices(vs, merged) ==
    LET keep == Unmerged(vs, merged)
    IN  [k \in 1 .. Len(keep) |-> <<vs[keep[k] + 1][1], k - 1>>]

\* lines 265-270: vertex_map after the first loop
UnmergedMap(vs, merged) ==
    LET keep == Unmerged(vs, merged)
    IN  [index \in Range(keep) |-> (CHOOSE k \in 1 .. Len(keep) : keep[k] = index) - 1]

\* lines 272-273: vertex_map after the second loop, from entry k on; a
\* merged_to that is not yet a key raises KeyError, which leaves the map
\* without that entry and every later one
RECURSIVE AddMerged(_, _, _)
AddMerged(vmap, merged, k) ==
    IF k > Len(merged) THEN vmap
    ELSE IF merged[k][2] \notin DOMAIN vmap THEN vmap
         ELSE AddMerged([v \in DOMAIN vmap \cup {merged[k][1]} |->
                            IF v = merged[k][1] THEN vmap[merged[k][2]] ELSE vmap[v]],
                        merged, k + 1)

vertex_map(vs, merged) == AddMerged(UnmergedMap(vs, merged), merged, 1)

\* a zero-size test that compares the first two indices only
ZeroSized_first_pair(new1, new2, new3) == new1 = new2

\* line 280
ZeroSized(new1, new2, new3) == new1 = new2 \/ new2 = new3 \/ new3 = new1

\* lines 275-282
new_faces(fs, vmap) ==
    LET mapped == [k \in 1 .. Len(fs) |->
                      <<fs[k][1], vmap[fs[k][2]], vmap[fs[k][3]], vmap[fs[k][4]]>>]
    IN  SelectSeq(mapped, LAMBDA f : ~ZeroSized(f[2], f[3], f[4]))

\* a lookup of lines 273 or 276-278 that raises KeyError
RaisesKeyError(vs, fs, merged) ==
    LET vmap == vertex_map(vs, merged)
    IN  \/ Sources(merged) \ DOMAIN vmap # {}
        \/ FaceVertices(fs) \ DOMAIN vmap # {}

\* a pass that returns the number of vertices kept
simplify_returns_survivors(vs, fs) ==
    LET merged == merged_vertices(vs, fs)
    IN  [vertices |-> new_vertices(vs, merged),
         faces |-> new_faces(fs, vertex_map(vs, merged)),
         returns |-> Len(vs) - Len(merged),
         raises |-> RaisesKeyError(vs, fs, merged)]

\* Mesh.simplify: the mesh after the pass and the value returned
simplify(vs, fs) ==
    LET merged == merged_vertices(vs, fs)
    IN  IF RaisesKeyError(vs, fs, merged)
        THEN [vertices |-> vs, faces |-> fs, returns |-> 0, raises |-> TRUE]
        ELSE [vertices |-> new_vertices(vs, merged),
              faces |-> new_faces(fs, vertex_map(vs, merged)),
              returns |-> Len(merged),
              raises |-> FALSE]

----------------------------------------------------------------------------
(* Mesh.save: the file as the sequence of writes, each with the format it  *)
(* was packed with, the values packed and the number of bytes it holds.    *)
(* The bytes of a packed float are not modelled, their number is.          *)

\* struct: the standard size of one format character ("<": no padding)
CharSize(ch) ==
    CASE ch = "<" -> 0
      [] ch = "f" -> 4
      [] ch = "L" -> 4
      [] ch = "H" -> 2

RECURSIVE calcsize(_)
calcsize(fmt) == IF fmt = <<>> THEN 0 ELSE CharSize(Head(fmt)) + calcsize(Tail(fmt))

\* struct.pack
pack(fmt, values) == [fmt |-> fmt, values |-> values, size |-> calcsize(fmt)]

\* the little-endian bytes of an unsigned integer of width bytes
RECURSIVE LittleEndian(_, _)
LittleEndian(n, width) ==
    IF width = 0 THEN <<>> ELSE <<n % 256>> \o LittleEndian(n \div 256, width - 1)

\* line 296: fh.write(b" " * 80)
Header == [fmt |-> <<>>, values |-> [k \in 1 .. 80 |-> 32], size |-> 80]

\* a facet record without the attribute byte count
FacetFormat_no_attribute == <<"<", "f", "f", "f", "f", "f", "f", "f", "f", "f", "f", "f", "f">>

\* line 306: b"<ffffffffffffH"
FacetFormat == <<"<", "f", "f", "f", "f", "f", "f", "f", "f", "f", "f", "f", "f", "H">>

\* line 297: struct.pack(b"<L", len(self.faces))
FacetCount(fs) ==
    [fmt |-> <<"<", "L">>, values |-> LittleEndian(Len(fs), 4), size |-> calcsize(<<"<", "L">>)]

\* lines 299-313 for one face; vertex_list is list(self.vertices.keys())
Facet(vs, f) ==
    LET vertex1 == vs[f[2] + 1][1]
        vertex2 == vs[f[3] + 1][1]
        vertex3 == vs[f[4] + 1][1]
    IN  pack(FacetFormat, f[1] \o vertex1 \o vertex2 \o vertex3 \o <<0>>)

\* Mesh.save
save(vs, fs) ==
    <<Header, FacetCount(fs)>> \o [k \in 1 .. Len(fs) |-> Facet(vs, fs[k])]

----------------------------------------------------------------------------
(* Clients of the Mesh class *)

Triangle(p1, p2, p3) == [op |-> "add_triangle", pts |-> <<p1, p2, p3>>, bottom |-> 0]

\* four points of a unit square in the plane z = 0
SquarePoints == {<<0, 0, 0>>, <<1, 0, 0>>, <<0, 1, 0>>, <<1, 1, 0>>}

\* the calls a small client draws from: the triangle on three corners of
\* the square in each of its six orders, the other half of the square in
\* both orientations, the square as a quad, and one surface and one wall
ClientCalls ==
    {Triangle(t[1], t[2], t[3]) :
        t \in {t \in (SquarePoints \ {<<1, 1, 0>>}) \X (SquarePoints \ {<<1, 1, 0>>})
                      \X (SquarePoints \ {<<1, 1, 0>>}) :
                  ~ZeroArea(t[1], t[2], t[3])}}
    \cup {Triangle(<<1, 0, 0>>, <<1, 1, 0>>, <<0, 1, 0>>),
          Triangle(<<1, 0, 0>>, <<0, 1, 0>>, <<1, 1, 0>>),
          [op |-> "add_quad",
           pts |-> <<<<0, 0, 0>>, <<1, 0, 0>>, <<1, 1, 0>>, <<0, 1, 0>>>>,
           bottom |-> 0],
          [op |-> "add_surface",
           pts |-> <<<<0, 0, 0>>, <<1, 0, 0>>, <<0, 1, 0>>>>,
           bottom |-> bottom],
          [op |-> "add_edge",
           pts |-> <<<<0, 0, 0>>, <<1, 0, 0>>>>,
           bottom |-> bottom]}

\* a closed solid built triangle by triangle: a flat top inside the
\* triangle (0,0) (9,0) (0,9), closed below by three faces to an apex.  The
\* top holds the triangle (1,1) (6,1) (1,6) with the vertex (3,3) inside it
\* and the vertex (3,2) inside the triangle (3,3) (1,1) (6,1).
NestedSlab ==
    LET Pp == <<0, 0, 0>>  Q == <<9, 0, 0>>  R == <<0, 9, 0>>
        M == <<1, 1, 0>>   X == <<6, 1, 0>>  Z == <<1, 6, 0>>
        B == <<3, 3, 0>>   W == <<3, 2, 0>>  S == <<3, 3, -3>>
    IN  <<Triangle(B, M, W), Triangle(M, X, W), Triangle(X, B, W),
          Triangle(X, Z, B), Triangle(Z, M, B),
          Triangle(Pp, Q, M), Triangle(Q, X, M), Triangle(Q, R, X),
          Triangle(R, Z, X), Triangle(R, Pp, Z), Triangle(Pp, M, Z),
          Triangle(Q, Pp, S), Triangle(R, Q, S), Triangle(Pp, R, S)>>

Scripts == UNION {[1 .. k -> ClientCalls] : k \in 0 .. MaxCalls} \cup {NestedSlab}

----------------------------------------------------------------------------
(* The state machine *)

Init ==
    /\ \/ /\ arr \in Grids
          /\ calls = <<>>
          /\ pc = "scan"
       \/ /\ arr = NoGrid
          /\ calls \in Scripts
          /\ pc = "api"
    /\ pos = 0
    /\ vertices = <<>>
    /\ faces = <<>>
    /\ emitted = <<>>
    /\ removed = 0
    /\ total_removed = 0
    /\ passes = 0
    /\ out = <<>>

Mesh == [vertices |-> vertices, faces |-> faces]

\* realise.py lines 32-97: one iteration of the loop over the array
ScanCell ==
    /\ pc = "scan"
    /\ pos < NCells(arr)
    /\ LET index == IndexAt(arr, pos)
           cs == CellCalls(arr, index)
           m == ApplyCalls(Mesh, cs)
       IN  /\ vertices' = m.vertices
           /\ faces' = m.faces
           /\ emitted' = emitted \o [k \in 1 .. Len(cs) |-> [cell |-> index, call |-> cs[k]]]
    /\ pos' = pos + 1
    /\ UNCHANGED <<arr, calls, pc, removed, total_removed, passes, out>>

\* a client's next call on the mesh
ApiCall ==
    /\ pc = "api"
    /\ calls # <<>>
    /\ LET m == ApplyCall(Mesh, Head(calls))
       IN  /\ vertices' = m.vertices
           /\ faces' = m.faces
    /\ emitted' = Append(emitted, [cell |-> <<-1, -1>>, call |-> Head(calls)])
    /\ calls' = Tail(calls)
    /\ UNCHANGED <<arr, pos, pc, removed, total_removed, passes, out>>

\* the mesh is built: the loop over the array has ended, or the client has
\* made its last call
Built ==
    \/ pc = "scan" /\ pos = NCells(arr)
    \/ pc = "api" /\ calls = <<>>

\* realise.py lines 99-101 with --simplify (the option is read only here)
StartSimplify ==
    /\ Built
    /\ pc' = "simplify"
    /\ total_removed' = 0
    /\ UNCHANGED <<arr, calls, pos, vertices, faces, emitted, removed, passes, out>>

\* realise.py line 99 with --nosimplify
SkipSimplify ==
    /\ Built
    /\ pc' = "save"
    /\ UNCHANGED <<arr, calls, pos, vertices, faces, emitted, removed,
                   total_removed, passes, out>>

\* realise.py lines 102-107: one iteration of the while loop
SimplifyPass ==
    /\ pc = "simplify"
    /\ LET r == simplify(vertices, faces)
       IN  /\ vertices' = r.vertices
           /\ faces' = r.faces
           /\ removed' = r.returns
           /\ total_removed' = total_removed + r.returns
           /\ pc' = IF r.raises THEN "KeyError"
                    ELSE IF r.returns = 0 THEN "save" ELSE "simplify"
    /\ passes' = passes + 1
    /\ UNCHANGED <<arr, calls, pos, emitted, out>>

\* realise.py lines 110-111
Save ==
    /\ pc = "save"
    /\ out' = save(vertices, faces)
    /\ pc' = "done"
    /\ UNCHANGED <<arr, calls, pos, vertices, faces, emitted, removed,
                   total_removed, passes>>

Next == ScanCell \/ ApiCall \/ StartSimplify \/ SkipSimplify \/ SimplifyPass \/ Save

Spec == Init /\ [][Next]_vars

----------------------------------------------------------------------------
(* What the claims speak of *)

Realise == arr # NoGrid

InGrid(a, index) ==
    /\ 0 <= index[1] /\ index[1] < a.shape[1]
    /\ 0 <= index[2] /\ index[2] < a.shape[2]

\* the cell holds an elevation
Present(a, index) == InGrid(a, index) /\ a.data[index] > NODATA

Around(index) ==
    {<<index[1] + dx, index[2] + dy>> : dx, dy \in {-1, 0, 1}} \ {index}

\* a present cell with its 8 neighbours out of the grid or no-data
Isolated(a, index) ==
    Present(a, index) /\ \A q \in Around(index) : ~Present(a, q)

XY(p) == <<p[1], p[2]>>

\* the sides of the surface triangle of an add_surface call, as pairs of cells
SurfaceSides(call) ==
    {{XY(call.pts[1]), XY(call.pts[2])}, {XY(call.pts[2]), XY(call.pts[3])},
     {XY(call.pts[3]), XY(call.pts[1])}}

WallSide(call) == {XY(call.pts[1]), XY(call.pts[2])}

SurfaceCount(e) ==
    Cardinality({k \in 1 .. Len(emitted) :
                    /\ emitted[k].call.op = "add_surface"
                    /\ e \in SurfaceSides(emitted[k].call)})

WallCount(e) ==
    Cardinality({k \in 1 .. Len(emitted) :
                    /\ emitted[k].call.op = "add_edge"
                    /\ WallSide(emitted[k].call) = e})

EmittedSides ==
    UNION {IF emitted[k].call.op = "add_surface"
           THEN SurfaceSides(emitted[k].call)
           ELSE {WallSide(emitted[k].call)} : k \in 1 .. Len(emitted)}

\* the directed edges of the faces, each with the face that runs along it
DirectedEdges(fs) ==
    UNION {{<<fs[k][2], fs[k][3], k>>, <<fs[k][3], fs[k][4], k>>, <<fs[k][4], fs[k][2], k>>}
           : k \in 1 .. Len(fs)}

\* every directed edge of every face is run along by exactly one face, and
\* by exactly one face in the opposite direction
Closed(fs) ==
    LET de == DirectedEdges(fs)
        e == {<<d[1], d[2]>> : d \in de}
    IN  /\ Cardinality(e) = Cardinality(de)
        /\ \A d \in e : <<d[2], d[1]>> \in e

\* a flat vertex whose neighbours are all flat and that has a flat
\* neighbour with the same normal
MergeablePair(vs, fs) ==
    LET vn == vertex_neighbours(fs)
        flat == flat_vertices(vertex_face_normals(fs))
    IN  \E v \in DOMAIN flat :
            /\ v < Len(vs)
            /\ \A w \in Range(vn[v]) : w \in DOMAIN flat
            /\ \E w \in Range(vn[v]) : w \in DOMAIN flat /\ flat[w] = flat[v]

Referenced(fs) == FaceVertices(fs)

RECURSIVE TotalSize(_, _, _)
TotalSize(o, lo, hi) ==
    IF lo > hi THEN 0
    ELSE IF lo = hi THEN o[lo].size
         ELSE TotalSize(o, lo, (lo + hi) \div 2) + TotalSize(o, (lo + hi) \div 2 + 1, hi)

RECURSIVE FromLittleEndian(_)
FromLittleEndian(bytes) ==
    IF bytes = <<>> THEN 0 ELSE Head(bytes) + 256 * FromLittleEndian(Tail(bytes))

----------------------------------------------------------------------------
(* C1: once realise has scanned the whole grid, every side of a surface    *)
(* triangle with no surface triangle on its other side carries exactly one *)
(* wall quad, and a side with surface triangles on both sides carries      *)
(* none; no wall stands anywhere else.                                     *)
C1_WallsCloseTheSolid ==
    (Realise /\ pc # "scan") =>
        \A e \in EmittedSides :
            /\ SurfaceCount(e) = 1 => WallCount(e) = 1
            /\ SurfaceCount(e) # 1 => WallCount(e) = 0

(* C2: every point realise passes to the mesh for a cell, whether the cell *)
(* was sampled as a neighbour or is the centre, has the cell's stored      *)
(* value raised to the minimum as its elevation.                           *)
C2_SampledAsCentre ==
    Realise =>
        \A k \in 1 .. Len(emitted) :
            \A p \in Range(emitted[k].call.pts) :
                /\ Present(arr, XY(p))
                /\ p[3] = CentreValue(arr.data[XY(p)])

(* C3: after one or more simplify passes no face has two equal vertex      *)
(* indices.                                                                *)
C3_NoDegenerateFace ==
    passes >= 1 =>
        \A k \in 1 .. Len(faces) :
            /\ faces[k][2] # faces[k][3]
            /\ faces[k][3] # faces[k][4]
            /\ faces[k][4] # faces[k][2]

\* a pass has merged vertices, which made faces zero sized, and faces remain
C3_Witness ==
    /\ passes >= 1
    /\ total_removed > 0
    /\ faces # <<>>

(* C4: a simplify pass on a mesh with no mergeable pair returns 0 and      *)
(* leaves the vertex table and the face list as they were.                 *)
C4_FixpointPassChangesNothing ==
    [][(pc = "simplify" /\ ~MergeablePair(vertices, faces)) =>
           /\ removed' = 0
           /\ vertices' = vertices
           /\ faces' = faces]_vars

\* a pass has run on a mesh with faces and no mergeable pair
C4_Witness ==
    /\ pc = "save"
    /\ passes >= 1
    /\ removed = 0
    /\ faces # <<>>
    /\ ~MergeablePair(vertices, faces)

(* C5 as claimed: in every state of the mesh the vertex table maps         *)
(* distinct coordinate triples to exactly the indices 0 .. n-1, every      *)
(* index a face holds is within 0 .. n-1, and every vertex of the table is *)
(* referenced by at least one face.                                        *)
TableIsDense ==
    /\ \A j, k \in 1 .. Len(vertices) : vertices[j][1] = vertices[k][1] => j = k
    /\ {vertices[k][2] : k \in 1 .. Len(vertices)} = 0 .. Len(vertices) - 1
    /\ Referenced(faces) \subseteq 0 .. Len(vertices) - 1

C6_IsolatedCellVanishes ==
    Realise =>
        /\ \A k \in 1 .. Len(emitted) :
               /\ ~Isolated(arr, emitted[k].cell)
               /\ \A p \in Range(emitted[k].call.pts) : ~Isolated(arr, XY(p))
        /\ (\A index \in DOMAIN arr.data : Present(arr, index) => Isolated(arr, index))
               => (faces = <<>> /\ vertices = <<>>)

\* the scan of a grid with an isolated present cell has ended
C6_Witness ==
    /\ Realise
    /\ pc = "save"
    /\ \E index \in DOMAIN arr.data : Isolated(arr, index)
    /\ faces = <<>>

(* C7: the file Mesh.save writes holds 84 + 50 * face_count bytes: an      *)
(* 80-byte header, the face count in 4 little-endian bytes, and one        *)
(* 50-byte record per face, in mesh order, ending in a zero.               *)
C7_FileSize ==
    pc = "done" =>
        /\ TotalSize(out, 1, Len(out)) = 84 + 50 * Len(faces)
        /\ Len(out) = 2 + Len(faces)
        /\ out[1].size = 80 /\ Len(out[1].values) = 80
        /\ out[2].size = 4 /\ Len(out[2].values) = 4
        /\ FromLittleEndian(out[2].values) = Len(faces)
        /\ \A k \in 1 .. Len(faces) :
               /\ out[k + 2].size = 50
               /\ Len(out[k + 2].values) = 13
               /\ SubSeq(out[k + 2].values, 1, 3) = faces[k][1]
               /\ SubSeq(out[k + 2].values, 4, 6) = vertices[faces[k][2] + 1][1]
               /\ SubSeq(out[k + 2].values, 7, 9) = vertices[faces[k][3] + 1][1]
               /\ SubSeq(out[k + 2].values, 10, 12) = vertices[faces[k][4] + 1][1]
               /\ out[k + 2].values[13] = 0

\* a mesh with faces has been saved
C7_Witness ==
    /\ pc = "done"
    /\ Len(faces) >= 2

(* C8: a simplify pass that returns k leaves the vertex table with exactly *)
(* k fewer entries; the loop goes on after k > 0 and ends after k = 0; the *)
(* passes made never outnumber the vertices removed by more than the       *)
(* one last pass, and the vertices removed never are all the vertices.     *)
C8_SimplifyLoopEnds ==
    /\ [][pc = "simplify" =>
             /\ Len(vertices') = Len(vertices) - removed'
             /\ removed' >= 0
             /\ removed' > 0 => pc' = "simplify"
             /\ removed' = 0 => pc' = "save"]_vars
    /\ [](passes <= total_removed + (IF pc = "simplify" THEN 0 ELSE 1))
    /\ [](total_removed > 0 => vertices # <<>>)

\* the loop has ended after more than one pass that removed vertices
C8_Witness ==
    /\ pc = "save"
    /\ passes >= 3
    /\ removed = 0

(* C9 as claimed: of the merges one pass schedules, no target is a source, *)
(* no source is a neighbour of the source or of the target of another      *)
(* merge, and the lookup of the remap never fails.                         *)
SourcesApart(merged, vn) ==
    \A j, k \in 1 .. Len(merged) :
        j # k => merged[j][1] \notin Range(vn[merged[k][1]])

SourcesOffTargets(merged, vn) ==
    \A j, k \in 1 .. Len(merged) :
        j # k => merged[j][1] \notin Range(vn[merged[k][2]])

C10_PassKeepsMeshClosed ==
    [][(pc = "simplify" /\ Closed(faces)) => Closed(faces')]_vars

====
